---------------------------- MODULE Spec2Model ----------------------------
(***************************************************************************)
(* Token lifecycle of otsalex/token_provider (src/src/app.js).             *)
(*                                                                         *)
(* The two handlers that touch the table user_tokens are modelled:         *)
(*   GET /callback   exchangeCodeForSession, then upsert                   *)
(*   GET /get-token  select latest, then (if expired) refreshToken:        *)
(*                   select latest, POST to the token endpoint, update     *)
(* Every await of the source is one action: the awaited call executes at   *)
(* the datastore or at the provider and the handler runs on to its next    *)
(* await or to its response.  Requests interleave only at these points.    *)
(*                                                                         *)
(* The datastore and the identity provider are outside the repository.     *)
(* Each of their calls may fail at any time.  Two facts about them that    *)
(* the source does not fix are chosen in Init and never change:            *)
(*   keyedByUser             whether user_id is the key upsert conflicts   *)
(*                           on (replace) or not (a new row per exchange)  *)
(*   providerInvalidatesUsed whether a refresh_token dies once used        *)
(* Tokens are numbered by the grant that issued them: grant g issues       *)
(* access_token g and, when it issues one, refresh_token g.  0 stands for  *)
(* a field that is absent (undefined / null).                              *)
(***************************************************************************)
EXTENDS Integers, Sequences, FiniteSets, TLC

\* Bounds of the model
MaxTime == 2
MaxStarted == 3
MaxLife == 2
NumRequests == 2
NumUsers == 2

Users == 1..NumUsers
Requests == 1..NumRequests
Lifetimes == 1..MaxLife

VARIABLES
    now,                      \* Math.floor(Date.now() / 1000)
    table,                    \* rows of user_tokens, in insertion order
    keyedByUser,              \* schema of user_tokens (see above)
    issued,                   \* provider: the grants made so far
    revoked,                  \* provider: refresh tokens no longer accepted
    providerInvalidatesUsed,  \* provider policy (see above)
    started,                  \* requests received so far
    req                       \* the requests in flight, one record per slot

vars == <<started, now, table, keyedByUser, issued, revoked, providerInvalidatesUsed, req>>

-----------------------------------------------------------------------------
\* Values

NoRow == [access_token |-> 0, refresh_token |-> 0, expires_at |-> 0]
NoSession == [user_id |-> 0, access_token |-> 0, refresh_token |-> 0, expires_at |-> 0]
NoTokens == [ok |-> FALSE, access_token |-> 0, refresh_token |-> 0, expires_at |-> 0]
NoResponse == [status |-> 0, access_token |-> 0, expires_at |-> 0,
               message |-> "", error |-> "", location |-> ""]

\* res.json(body), res.status(s).json({error}), res.redirect(url)
JsonFresh(at, exp) == [NoResponse EXCEPT !.status = 200, !.access_token = at, !.expires_at = exp]
JsonRefreshed(at) == [NoResponse EXCEPT !.status = 200, !.access_token = at,
                         !.message = "Token refreshed and retrieved successfully."]
JsonError(s, e) == [NoResponse EXCEPT !.status = s, !.error = e]
Redirect(url) == [NoResponse EXCEPT !.status = 302, !.location = url]

\* A request slot: the handler's position, its locals, and what it has done.
IdleRequest ==
    [pc |-> "idle", kind |-> "none", code |-> FALSE, user_id |-> 0,
     lookup |-> "",                 \* how the handler's select ended: row, norow, dberr
     userToken |-> NoRow,           \* the handler's userToken (line 98)
     currentTime |-> 0,             \* line 111
     rUserToken |-> NoRow,          \* refreshToken's userToken (line 140)
     refreshedTokens |-> NoTokens,  \* the token endpoint's answer (lines 152-170)
     session |-> NoSession,         \* session.session (line 75)
     exchanged |-> FALSE,           \* exchangeCodeForSession returned without error
     grantedAt |-> 0,               \* the time of the provider's answer
     provCalls |-> 0,               \* requests sent to the token endpoint
     writes |-> 0,                  \* upsert / update calls sent to the datastore
     saved |-> FALSE,               \* the upsert / update was applied
     resp |-> NoResponse]


-----------------------------------------------------------------------------
\* The table user_tokens (the datastore is reached through supabaseAdmin)

RowsOf(t, u) == {i \in DOMAIN t : t[i].user_id = u}

\* .order('created_at', { ascending: false }).limit(1)
LatestIndex(t, u) ==
    CHOOSE i \in RowsOf(t, u) : \A j \in RowsOf(t, u) : t[j].created_at <= t[i].created_at

FetchLatest(t, u) == t[LatestIndex(t, u)]

\* select(...).eq('user_id', u).order(...).limit(1).single(): the answers the
\* datastore can give.  single() answers with an error when no row matches;
\* the datastore itself can fail at any call.
SelectLatest(t, u) ==
    {[error |-> TRUE, data |-> NoRow, cause |-> "dberr"]}
    \cup (IF RowsOf(t, u) = {}
          THEN {[error |-> TRUE, data |-> NoRow, cause |-> "norow"]}
          ELSE {[error |-> FALSE, cause |-> "row",
                 data |-> [access_token |-> FetchLatest(t, u).access_token,
                           refresh_token |-> FetchLatest(t, u).refresh_token,
                           expires_at |-> FetchLatest(t, u).expires_at]]})

\* The answers to an upsert or update: applied, or refused by the datastore.
WriteResults == {[error |-> FALSE], [error |-> TRUE]}

\* A row as inserted: created_at is set by the datastore and grows with
\* every insert.
NewRow(t, s) ==
    [user_id |-> s.user_id, access_token |-> s.access_token,
     refresh_token |-> s.refresh_token, expires_at |-> s.expires_at,
     created_at |-> Len(t) + 1]

\* Upsert as an insert that leaves an existing record of the user alone.
Upsert_IgnoreExisting(t, s) ==
    IF RowsOf(t, s.user_id) # {} THEN t ELSE Append(t, NewRow(t, s))

\* upsert({user_id, access_token, refresh_token, expires_at}) applied
Upsert(t, s) ==
    IF keyedByUser /\ RowsOf(t, s.user_id) # {}
    THEN [i \in DOMAIN t |->
            IF t[i].user_id = s.user_id
            THEN [t[i] EXCEPT !.access_token = s.access_token,
                              !.refresh_token = s.refresh_token,
                              !.expires_at = s.expires_at]
            ELSE t[i]]
    ELSE Append(t, NewRow(t, s))

\* The update without its expires_at field.
UpdateWhereUser_KeepsExpiry(t, u, at, rt, exp) ==
    [i \in DOMAIN t |->
        IF t[i].user_id = u
        THEN [t[i] EXCEPT !.access_token = at, !.refresh_token = rt]
        ELSE t[i]]

\* The update without its filter on user_id.
UpdateWhereUser_AllRows(t, u, at, rt, exp) ==
    [i \in DOMAIN t |->
        [t[i] EXCEPT !.access_token = at, !.refresh_token = rt, !.expires_at = exp]]

\* update({access_token, refresh_token, expires_at}).eq('user_id', u) applied
UpdateWhereUser(t, u, at, rt, exp) ==
    [i \in DOMAIN t |->
        IF t[i].user_id = u
        THEN [t[i] EXCEPT !.access_token = at, !.refresh_token = rt, !.expires_at = exp]
        ELSE t[i]]

-----------------------------------------------------------------------------
\* The identity provider

\* The grant the next successful exchange or refresh makes.
NextGrant == Len(issued) + 1

\* A refresh_token the token endpoint accepts.
AcceptedRefreshToken(p) ==
    /\ p \in 1..Len(issued)
    /\ issued[p].refresh_token = p
    /\ p \notin revoked

\* auth.exchangeCodeForSession(code): the answers the provider can give.
\* The user is the one the code was issued to.
ExchangeCodeForSession ==
    {[error |-> TRUE, session |-> NoSession]}
    \cup {[error |-> FALSE,
            session |-> [user_id |-> u, access_token |-> NextGrant,
                         refresh_token |-> NextGrant, expires_at |-> now + l]]
           : u \in Users, l \in Lifetimes}

\* POST /2/oauth2/token with grant_type=refresh_token and refresh_token p: the
\* answers the provider can give.  A non-2xx answer is possible at any time;
\* a new refresh_token is optional unless the provider invalidates used ones.
TokenEndpoint(p) ==
    {NoTokens}
    \cup (IF AcceptedRefreshToken(p)
          THEN {[ok |-> TRUE, access_token |-> NextGrant, refresh_token |-> rt,
                 expires_at |-> now + l]
                : rt \in (IF providerInvalidatesUsed THEN {NextGrant} ELSE {0, NextGrant}),
                  l \in Lifetimes}
          ELSE {})

\* The provider's record of a grant it made to user u.
Grant(u, g) ==
    [user_id |-> u, access_token |-> g.access_token, refresh_token |-> g.refresh_token,
     expires_at |-> g.expires_at]

-----------------------------------------------------------------------------
\* The conditions the handlers branch on

\* line 70: if (error)
ExchangeFailed(res) == res.error

SaveFailed_Unchecked(res) == FALSE

\* line 86: if (dbError)
SaveFailed(res) == res.error

TokensNotFound_Unchecked(res) == FALSE

\* line 106: if (error || !userToken)
TokensNotFound(res) == res.error \/ res.data = NoRow

StillValid_Reversed(expires_at, currentTime) == currentTime > expires_at

StillValid_OrEqual(expires_at, currentTime) == expires_at >= currentTime

\* line 112: if (userToken.expires_at > currentTime)
StillValid(expires_at, currentTime) == expires_at > currentTime

RefreshTokensNotFound_Unchecked(res) == FALSE

\* line 148: if (error || !userToken)
RefreshTokensNotFound(res) == res.error \/ res.data = NoRow

ResponseNotOk_Unchecked(response) == FALSE

\* line 165: if (!response.ok)
ResponseNotOk(response) == ~response.ok

\* line 176: refreshedTokens.refresh_token || userToken.refresh_token
RefreshTokenToStore(refreshed, stored) == IF refreshed # 0 THEN refreshed ELSE stored

UpdateFailed_Unchecked(res) == FALSE

\* line 181: if (dbError)
UpdateFailed(res) == res.error

-----------------------------------------------------------------------------
Init ==
    /\ now = 0
    /\ started = 0
    /\ table = <<>>
    /\ keyedByUser \in BOOLEAN
    /\ issued = <<>>
    /\ revoked = {}
    /\ providerInvalidatesUsed \in BOOLEAN
    /\ req = [r \in Requests |-> IdleRequest]

\* Time passes.
Tick ==
    /\ now < MaxTime
    /\ now' = now + 1
    /\ UNCHANGED <<started, table, keyedByUser, issued, revoked, providerInvalidatesUsed, req>>

\* A request arrives and is handled in slot r.
Accept(r) ==
    /\ req[r].pc = "idle"
    /\ started < MaxStarted
    /\ started' = started + 1

Respond_NoResponse(r, rec, response) == [req EXCEPT ![r] = [rec EXCEPT !.pc = "done"]]

Respond(r, rec, response) == [req EXCEPT ![r] = [rec EXCEPT !.pc = "done", !.resp = response]]

-----------------------------------------------------------------------------
\* GET /callback (lines 64-92)

\* lines 64-68, 91: without a code the handler redirects at once; with one
\* it awaits the exchange.
StartCallback(r, code) ==
    /\ Accept(r)
    /\ LET rec == [req[r] EXCEPT !.kind = "callback", !.code = code]
       IN  req' = IF code
                  THEN [req EXCEPT ![r] = [rec EXCEPT !.pc = "cb_exchange"]]
                  ELSE Respond(r, rec, Redirect("/"))
    /\ UNCHANGED <<now, table, keyedByUser, issued, revoked, providerInvalidatesUsed>>

\* lines 68-84: the exchange answers; on success the upsert is sent.
ExchangeCode(r) ==
    /\ req[r].pc = "cb_exchange"
    /\ \E res \in ExchangeCodeForSession :
        /\ issued' = IF res.error THEN issued
                     ELSE Append(issued, Grant(res.session.user_id, res.session))
        /\ LET rec == [req[r] EXCEPT !.exchanged = ~res.error, !.grantedAt = now]
           IN  req' = IF ExchangeFailed(res)
                      THEN Respond(r, rec, JsonError(500, "Failed to exchange code"))
                      ELSE [req EXCEPT ![r] =
                              [rec EXCEPT !.pc = "cb_upsert",
                                          !.session = res.session,
                                          !.user_id = res.session.user_id,
                                          !.writes = @ + 1]]
    /\ UNCHANGED <<started, now, table, keyedByUser, revoked, providerInvalidatesUsed>>

\* lines 77-91: the upsert answers.
SaveTokens(r) ==
    /\ req[r].pc = "cb_upsert"
    /\ \E res \in WriteResults :
        /\ table' = IF res.error THEN table ELSE Upsert(table, req[r].session)
        /\ LET rec == [req[r] EXCEPT !.saved = ~res.error]
           IN  req' = IF SaveFailed(res)
                      THEN Respond(r, rec, JsonError(500, "Failed to save tokens"))
                      ELSE Respond(r, rec, Redirect("/"))
    /\ UNCHANGED <<started, now, keyedByUser, issued, revoked, providerInvalidatesUsed>>

-----------------------------------------------------------------------------
\* GET /get-token (lines 94-135) and refreshToken (lines 138-194)

\* lines 94-104: the handler sends its select.
StartGetToken(r, u) ==
    /\ Accept(r)
    /\ req' = [req EXCEPT ![r] = [@ EXCEPT !.pc = "gt_select", !.kind = "get-token",
                                           !.user_id = u]]
    /\ UNCHANGED <<now, table, keyedByUser, issued, revoked, providerInvalidatesUsed>>

\* lines 98-119, 140: the select answers; 404, the stored token, or
\* refreshToken is entered and sends its own select.
GetTokenLookup(r) ==
    /\ req[r].pc = "gt_select"
    /\ \E res \in SelectLatest(table, req[r].user_id) :
        LET rec == [req[r] EXCEPT !.lookup = res.cause, !.userToken = res.data]
        IN  req' =
              IF TokensNotFound(res)
              THEN Respond(r, rec, JsonError(404, "Tokens not found for user"))
              ELSE IF StillValid(res.data.expires_at, now)
              THEN Respond(r, [rec EXCEPT !.currentTime = now],
                           JsonFresh(res.data.access_token, res.data.expires_at))
              ELSE [req EXCEPT ![r] = [rec EXCEPT !.currentTime = now, !.pc = "rt_select"]]
    /\ UNCHANGED <<started, now, table, keyedByUser, issued, revoked, providerInvalidatesUsed>>

\* refreshToken without its own select: it sends the refresh_token the
\* handler's lookup returned.
RefreshLookup_ReusesHandlerToken(r) ==
    /\ req[r].pc = "rt_select"
    /\ req' = [req EXCEPT ![r] =
                 [@ EXCEPT !.pc = "rt_fetch",
                           !.rUserToken = [req[r].userToken EXCEPT !.access_token = 0],
                           !.provCalls = @ + 1]]
    /\ UNCHANGED <<started, now, table, keyedByUser, issued, revoked, providerInvalidatesUsed>>

\* lines 140-163, 190-192, 131-133: refreshToken's select answers; it throws
\* (the handler's catch responds 500) or sends the refresh request.
RefreshLookup(r) ==
    /\ req[r].pc = "rt_select"
    /\ \E res \in SelectLatest(table, req[r].user_id) :
        req' = IF RefreshTokensNotFound(res)
               THEN Respond(r, req[r], JsonError(500, "Failed to retrieve tokens"))
               ELSE [req EXCEPT ![r] =
                       [@ EXCEPT !.pc = "rt_fetch",
                                 !.rUserToken = [res.data EXCEPT !.access_token = 0],
                                 !.provCalls = @ + 1]]
    /\ UNCHANGED <<started, now, table, keyedByUser, issued, revoked, providerInvalidatesUsed>>

\* lines 152-179: the token endpoint answers; refreshToken throws on a
\* non-2xx answer or sends the update.
ProviderRefresh(r) ==
    /\ req[r].pc = "rt_fetch"
    /\ \E response \in TokenEndpoint(req[r].rUserToken.refresh_token) :
        /\ issued' = IF response.ok
                     THEN Append(issued,
                                 Grant(issued[req[r].rUserToken.refresh_token].user_id, response))
                     ELSE issued
        /\ revoked' = IF response.ok /\ providerInvalidatesUsed
                      THEN revoked \cup {req[r].rUserToken.refresh_token}
                      ELSE revoked
        /\ req' = IF ResponseNotOk(response)
                  THEN Respond(r, req[r], JsonError(500, "Failed to retrieve tokens"))
                  ELSE [req EXCEPT ![r] =
                          [@ EXCEPT !.pc = "rt_update",
                                    !.refreshedTokens = response,
                                    !.grantedAt = now,
                                    !.writes = @ + 1]]
    /\ UNCHANGED <<started, now, table, keyedByUser, providerInvalidatesUsed>>

\* lines 172-189, 119-130: the update answers; refreshToken throws or returns
\* the new access_token, which the handler sends.  refreshToken reports every
\* failure by throwing, so what it returns never has an error field and the
\* branch of lines 121-124 is not taken.
RefreshUpdate(r) ==
    /\ req[r].pc = "rt_update"
    /\ \E res \in WriteResults :
        /\ table' = IF res.error THEN table
                    ELSE UpdateWhereUser(table, req[r].user_id,
                            req[r].refreshedTokens.access_token,
                            RefreshTokenToStore(req[r].refreshedTokens.refresh_token,
                                                req[r].rUserToken.refresh_token),
                            req[r].refreshedTokens.expires_at)
        /\ LET rec == [req[r] EXCEPT !.saved = ~res.error]
           IN  req' = IF UpdateFailed(res)
                      THEN Respond(r, rec, JsonError(500, "Failed to retrieve tokens"))
                      ELSE Respond(r, rec, JsonRefreshed(req[r].refreshedTokens.access_token))
    /\ UNCHANGED <<started, now, keyedByUser, issued, revoked, providerInvalidatesUsed>>

\* The response has been sent; the slot is free for the next request.
Finish(r) ==
    /\ req[r].pc = "done"
    /\ req' = [req EXCEPT ![r] = IdleRequest]
    /\ UNCHANGED <<started, now, table, keyedByUser, issued, revoked, providerInvalidatesUsed>>

Next ==
    \/ Tick
    \/ \E r \in Requests, code \in BOOLEAN : StartCallback(r, code)
    \/ \E r \in Requests : ExchangeCode(r)
    \/ \E r \in Requests : SaveTokens(r)
    \/ \E r \in Requests, u \in Users : StartGetToken(r, u)
    \/ \E r \in Requests : GetTokenLookup(r)
    \/ \E r \in Requests : RefreshLookup(r)
    \/ \E r \in Requests : ProviderRefresh(r)
    \/ \E r \in Requests : RefreshUpdate(r)
    \/ \E r \in Requests : Finish(r)

Spec == Init /\ [][Next]_vars

-----------------------------------------------------------------------------
\* One awaited call of get-token request r returns or fails and the handler
\* runs on to its next await or to its response.
GetTokenStep(r) ==
    \/ GetTokenLookup(r)
    \/ RefreshLookup(r)
    \/ ProviderRefresh(r)
    \/ RefreshUpdate(r)

\* Every datastore call and every refresh request a get-token call is
\* waiting for eventually returns or fails.
FairSpec == Spec /\ \A r \in Requests : WF_vars(GetTokenStep(r))

\* Properties

Done(r) == req[r].pc = "done"
GetTokenDone(r) == Done(r) /\ req[r].kind = "get-token"
CallbackDone(r) == Done(r) /\ req[r].kind = "callback"

\* The handler's select answers in this step, with the user's latest row.
LookupReturnsRow(r) ==
    /\ req[r].pc = "gt_select"
    /\ req'[r].pc # "gt_select"
    /\ req'[r].lookup = "row"

\* C1: when the handler's lookup returns the latest record and now is
\* strictly less than its expires_at, the call responds at once with exactly
\* the stored access_token and expires_at; the call has sent no request to
\* the token endpoint and no write, and the table and the provider's grants
\* are as they were.
C1_FreshReturnsStored ==
    [][\A r \in Requests :
        (LookupReturnsRow(r)
         /\ now < FetchLatest(table, req[r].user_id).expires_at)
        => /\ req'[r].pc = "done"
           /\ req'[r].resp = JsonFresh(FetchLatest(table, req[r].user_id).access_token,
                                       FetchLatest(table, req[r].user_id).expires_at)
           /\ req'[r].provCalls = 0
           /\ req'[r].writes = 0
           /\ table' = table
           /\ issued' = issued]_vars

C1_Witness ==
    \E r \in Requests :
        /\ GetTokenDone(r)
        /\ req[r].lookup = "row"
        /\ req[r].currentTime < req[r].userToken.expires_at
        /\ req[r].resp.status = 200
        /\ req[r].resp.access_token = req[r].userToken.access_token

\* C2: when the handler's lookup returns a record with now >= expires_at
\* (equality included) the call enters refreshToken instead of answering;
\* and a call that saw such a record and whose refresh request and update
\* both succeeded has sent exactly one refresh request and exactly one
\* update, and answers 200 with the access_token of the provider's response.
C2_ExpiredRefreshesOnce ==
    /\ [][\A r \in Requests :
            (LookupReturnsRow(r)
             /\ now >= FetchLatest(table, req[r].user_id).expires_at)
            => req'[r].pc = "rt_select"]_vars
    /\ [](\A r \in Requests :
            (/\ GetTokenDone(r)
             /\ req[r].lookup = "row"
             /\ req[r].currentTime >= req[r].userToken.expires_at
             /\ req[r].refreshedTokens.ok
             /\ req[r].saved)
            => /\ req[r].provCalls = 1
               /\ req[r].writes = 1
               /\ req[r].resp.status = 200
               /\ req[r].resp.access_token = req[r].refreshedTokens.access_token)

C2_Witness ==
    \E r \in Requests :
        /\ GetTokenDone(r)
        /\ req[r].lookup = "row"
        /\ req[r].currentTime = req[r].userToken.expires_at
        /\ req[r].refreshedTokens.ok
        /\ req[r].saved
        /\ req[r].resp.status = 200
        /\ req[r].resp.access_token # req[r].userToken.access_token

\* A refresh's update is applied in this step.
UpdateApplied(r) ==
    /\ req[r].pc = "rt_update"
    /\ req'[r].saved

\* C3: whenever the provider's response to a refresh omits refresh_token,
\* the user's stored refresh_token right after that refresh's update equals
\* the stored refresh_token right before it.
C3_OmittedKeepsStoredRefreshToken ==
    [][\A r \in Requests :
        (UpdateApplied(r) /\ req[r].refreshedTokens.ok
         /\ req[r].refreshedTokens.refresh_token = 0)
        => FetchLatest(table', req[r].user_id).refresh_token
             = FetchLatest(table, req[r].user_id).refresh_token]_vars

\* C4: a get-token call for a user without any record answers 404 "Tokens
\* not found for user" from its lookup step; it has sent no request to the
\* token endpoint and no write, and the table and the grants are unchanged.
C4_NoRecordIs404 ==
    [][\A r \in Requests :
        (/\ req[r].pc = "gt_select"
         /\ req'[r].pc # "gt_select"
         /\ RowsOf(table, req[r].user_id) = {})
        => /\ req'[r].pc = "done"
           /\ req'[r].resp = JsonError(404, "Tokens not found for user")
           /\ req'[r].provCalls = 0
           /\ req'[r].writes = 0
           /\ table' = table
           /\ issued' = issued]_vars

C4_Witness ==
    \E r \in Requests :
        /\ GetTokenDone(r)
        /\ req[r].lookup = "norow"
        /\ req[r].resp.status = 404
        /\ table # <<>>

\* C5: when the token endpoint answers a refresh request with a non-success
\* status (it makes no grant), the call ends in that step with 500 and no
\* access_token, no update has been sent, and the table is unchanged by that
\* step and by every earlier step of the call.
C5_ProviderFailureWritesNothing ==
    [][\A r \in Requests :
        /\ (/\ req[r].pc = "rt_fetch"
            /\ req'[r].pc # "rt_fetch"
            /\ issued' = issued)
           => /\ req'[r].pc = "done"
              /\ req'[r].resp.status = 500
              /\ req'[r].resp.access_token = 0
              /\ req'[r].writes = 0
              /\ table' = table
        /\ (req[r].pc \in {"gt_select", "rt_select", "rt_fetch"} /\ req'[r] # req[r])
           => table' = table]_vars

C5_Witness ==
    \E r \in Requests :
        /\ GetTokenDone(r)
        /\ req[r].provCalls = 1
        /\ ~req[r].refreshedTokens.ok
        /\ req[r].rUserToken.refresh_token # 0
        /\ req[r].resp.status = 500
        /\ req[r].writes = 0

\* C6: a get-token call answers 404 only when no record exists for the
\* user, and a datastore failure of its lookup is answered with 500.
C6_NotFoundOnlyWhenAbsent ==
    \A r \in Requests :
        GetTokenDone(r)
        => /\ (req[r].resp.status = 404 => req[r].lookup = "norow")
           /\ (req[r].lookup = "dberr" => req[r].resp.status = 500)

\* Two finished get-token calls for the same user whose lookups returned the
\* same record, expired for both.
SameExpiredRecord(r1, r2) ==
    /\ r1 # r2
    /\ GetTokenDone(r1) /\ GetTokenDone(r2)
    /\ req[r1].user_id = req[r2].user_id
    /\ req[r1].lookup = "row" /\ req[r2].lookup = "row"
    /\ req[r1].userToken = req[r2].userToken
    /\ req[r1].currentTime >= req[r1].userToken.expires_at
    /\ req[r2].currentTime >= req[r2].userToken.expires_at

\* C7 as stated: with a provider that invalidates used refresh tokens, of
\* two calls that observed the same expired record, when the provider
\* request of one succeeded the other call ends with 500.
C7_SecondConcurrentCallFails ==
    \A r1, r2 \in Requests :
        (/\ providerInvalidatesUsed
         /\ SameExpiredRecord(r1, r2)
         /\ req[r1].refreshedTokens.ok)
        => req[r2].resp.status = 500

\* C7 amended: the same, for two calls whose refreshToken lookups both read
\* the same refresh_token and both sent it: the other call's request is
\* refused, it sends no update and ends with 500.
C7_SameRefreshTokenSecondFails ==
    \A r1, r2 \in Requests :
        (/\ providerInvalidatesUsed
         /\ SameExpiredRecord(r1, r2)
         /\ req[r1].refreshedTokens.ok
         /\ req[r2].provCalls = 1
         /\ req[r1].rUserToken.refresh_token = req[r2].rUserToken.refresh_token)
        => /\ req[r2].resp.status = 500
           /\ ~req[r2].refreshedTokens.ok
           /\ req[r2].writes = 0

C7_Witness ==
    \E r1, r2 \in Requests :
        /\ providerInvalidatesUsed
        /\ SameExpiredRecord(r1, r2)
        /\ req[r1].resp.status = 200
        /\ req[r2].provCalls = 1
        /\ req[r1].rUserToken.refresh_token = req[r2].rUserToken.refresh_token
        /\ req[r2].resp.status = 500
        /\ req[r2].rUserToken.refresh_token \in revoked
        /\ AcceptedRefreshToken(FetchLatest(table, req[r1].user_id).refresh_token)

\* An exchange's upsert is applied in this step.
UpsertApplied(r) ==
    /\ req[r].pc = "cb_upsert"
    /\ req'[r].saved

\* C8 as stated: every write of a token record writes an expires_at that is
\* strictly greater than the current time at the write.
C8_ExpiryInFutureAtWrite ==
    [][\A r \in Requests :
        /\ UpsertApplied(r) => req[r].session.expires_at > now
        /\ UpdateApplied(r) => req[r].refreshedTokens.expires_at > now]_vars

\* C8 amended: every write of a token record stores exactly the expires_at
\* of the provider's grant it belongs to, which is strictly greater than the
\* time of the provider's answer.
C8_WritesGrantedExpiry ==
    [][\A r \in Requests :
        /\ UpsertApplied(r)
           => /\ FetchLatest(table', req[r].session.user_id).expires_at
                   = issued[req[r].session.access_token].expires_at
              /\ issued[req[r].session.access_token].expires_at > req[r].grantedAt
        /\ UpdateApplied(r)
           => /\ \A i \in RowsOf(table', req[r].user_id) :
                   table'[i].expires_at
                     = issued[req[r].refreshedTokens.access_token].expires_at
              /\ issued[req[r].refreshedTokens.access_token].expires_at > req[r].grantedAt]_vars

C8_Witness ==
    \E r \in Requests :
        /\ GetTokenDone(r)
        /\ req[r].saved
        /\ req[r].refreshedTokens.expires_at > req[r].grantedAt
        /\ req[r].refreshedTokens.expires_at <= now
        /\ FetchLatest(table, req[r].user_id).expires_at = req[r].refreshedTokens.expires_at

\* C9: right after the upsert of a successful /callback, the latest record
\* of the session's user holds exactly the session's access_token,
\* refresh_token and expires_at, whatever records the user had before.
C9_LatestIsExchangedSession ==
    [][\A r \in Requests :
        (UpsertApplied(r) /\ req'[r].resp.status = 302)
        => /\ RowsOf(table', req[r].session.user_id) # {}
           /\ FetchLatest(table', req[r].session.user_id).access_token
                = req[r].session.access_token
           /\ FetchLatest(table', req[r].session.user_id).refresh_token
                = req[r].session.refresh_token
           /\ FetchLatest(table', req[r].session.user_id).expires_at
                = req[r].session.expires_at]_vars

C9_Witness ==
    \E r \in Requests :
        /\ CallbackDone(r)
        /\ req[r].saved
        /\ req[r].resp.status = 302
        /\ req[r].session.access_token > 1
        /\ \E g \in 1..(req[r].session.access_token - 1) :
              issued[g].user_id = req[r].session.user_id
        /\ FetchLatest(table, req[r].session.user_id).access_token
             = req[r].session.access_token

\* C10 as stated: /callback redirects to / only when the exchange and the
\* upsert both succeeded.
C10_RedirectOnlyAfterExchangeAndSave ==
    \A r \in Requests :
        (CallbackDone(r) /\ req[r].resp.status = 302)
        => (req[r].exchanged /\ req[r].saved)

\* C10 amended: a /callback with a code redirects to / only when the
\* exchange and the upsert both succeeded; when the exchange fails it answers
\* 500 and has sent no write; when the upsert fails it answers 500 and the
\* table is unchanged.  A /callback without a code redirects to / and has
\* called neither the provider nor the datastore.
C10_CallbackOutcome ==
    /\ [](\A r \in Requests :
            CallbackDone(r)
            => /\ (req[r].code /\ req[r].resp.status = 302)
                    => (req[r].exchanged /\ req[r].saved)
               /\ (req[r].code /\ ~req[r].exchanged)
                    => (req[r].resp.status = 500 /\ req[r].writes = 0 /\ ~req[r].saved)
               /\ (req[r].code /\ req[r].exchanged /\ ~req[r].saved)
                    => (req[r].resp.status = 500 /\ req[r].writes = 1)
               /\ ~req[r].code
                    => /\ req[r].resp = Redirect("/")
                       /\ ~req[r].exchanged /\ req[r].writes = 0 /\ ~req[r].saved)
    /\ [][\A r \in Requests :
            (req[r].pc = "cb_upsert" /\ req'[r].pc = "done" /\ ~req'[r].saved)
            => table' = table]_vars

C10_Witness ==
    \E r \in Requests :
        /\ CallbackDone(r)
        /\ req[r].code
        /\ req[r].exchanged
        /\ ~req[r].saved
        /\ req[r].resp.status = 500
        /\ table # <<>>

\* refreshToken's select answers in this step and the refresh request is sent.
RefreshRequestSent(r) ==
    /\ req[r].pc = "rt_select"
    /\ req'[r].pc = "rt_fetch"

\* C11 as stated: two calls for the same user that observed the same expired
\* record and each sent a refresh request sent the same refresh_token.
C11_ConcurrentCallsSendSameToken ==
    \A r1, r2 \in Requests :
        (/\ SameExpiredRecord(r1, r2)
         /\ req[r1].provCalls = 1
         /\ req[r2].provCalls = 1)
        => req[r1].rUserToken.refresh_token = req[r2].rUserToken.refresh_token

\* C11 amended: there is no single-flight guard: every call whose
\* refreshToken lookup returns a row sends its own refresh request, whatever
\* other calls for the user are in flight, a call never sends more than one,
\* and the request carries the refresh_token stored in the user's latest
\* record at the moment of that call's own refreshToken lookup.
C11_EachCallSendsStoredToken ==
    /\ [][\A r \in Requests :
            /\ RefreshRequestSent(r)
               => /\ req'[r].provCalls = 1
                  /\ \E i \in RowsOf(table, req[r].user_id) :
                        /\ \A j \in RowsOf(table, req[r].user_id) :
                              table[j].created_at <= table[i].created_at
                        /\ req'[r].rUserToken.refresh_token = table[i].refresh_token
            /\ (req[r].pc = "rt_select" /\ req'[r].pc # "rt_select"
                /\ RowsOf(table, req[r].user_id) # {} /\ req'[r].pc = "done")
               => req'[r].provCalls = 0]_vars
    /\ [](\A r \in Requests : req[r].provCalls <= 1)

C11_Witness ==
    \E r1, r2 \in Requests :
        /\ SameExpiredRecord(r1, r2)
        /\ req[r1].provCalls = 1
        /\ req[r2].provCalls = 1
        /\ req[r1].refreshedTokens.ok
        /\ req[r2].refreshedTokens.ok
        /\ req[r1].rUserToken.refresh_token # req[r2].rUserToken.refresh_token

NoRequestInFlight == \A r \in Requests : req[r].pc \in {"idle", "done"}

\* The grants the provider has made to user u, by exchange or by refresh.
GrantsTo(u) == {g \in 1..Len(issued) : issued[g].user_id = u}

MostRecentGrant(u) == CHOOSE g \in GrantsTo(u) : \A h \in GrantsTo(u) : h <= g

\* C12: whenever no request is in flight, the access_token and expires_at of
\* a user's latest record are those of the provider's most recent successful
\* exchange or refresh for that user.
C12_StoredIsMostRecentGrant ==
    NoRequestInFlight
    => \A u \in Users :
          (RowsOf(table, u) # {} /\ GrantsTo(u) # {})
          => /\ FetchLatest(table, u).access_token
                  = issued[MostRecentGrant(u)].access_token
             /\ FetchLatest(table, u).expires_at
                  = issued[MostRecentGrant(u)].expires_at

\* C13: the update of a refresh for user u changes u's latest record only:
\* every older record of u and every record of another user is unchanged.
C13_UpdateTouchesLatestOnly ==
    [][\A r \in Requests :
        UpdateApplied(r)
        => /\ DOMAIN table' = DOMAIN table
           /\ \A i \in DOMAIN table :
                 i # LatestIndex(table, req[r].user_id) => table'[i] = table[i]]_vars

\* A finished get-token call whose refresh request succeeded and whose update
\* the datastore refused.
UpdateFailedCall(r) ==
    /\ GetTokenDone(r)
    /\ req[r].refreshedTokens.ok
    /\ req[r].writes = 1
    /\ ~req[r].saved

\* C14: when the refresh request succeeds and the update fails, the call
\* ends in that step with 500 and without the new access_token, and the
\* table is unchanged; a call for the user that afterwards looks up the same
\* record again takes the refresh path, never the fresh one.
C14_FailedUpdateLeavesStaleRecord ==
    /\ [][\A r \in Requests :
            (req[r].pc = "rt_update" /\ req'[r].pc # "rt_update" /\ ~req'[r].saved)
            => /\ req'[r].pc = "done"
               /\ req'[r].resp.status = 500
               /\ req'[r].resp.access_token = 0
               /\ table' = table]_vars
    /\ [](\A r1, r2 \in Requests :
            (/\ r1 # r2
             /\ UpdateFailedCall(r1)
             /\ req[r2].kind = "get-token"
             /\ req[r2].user_id = req[r1].user_id
             /\ req[r2].lookup = "row"
             /\ req[r2].userToken = req[r1].userToken
             /\ req[r2].currentTime >= req[r1].currentTime)
            => /\ req[r2].pc \in {"rt_select", "rt_fetch", "rt_update", "done"}
               /\ req[r2].resp.expires_at = 0
               /\ (req[r2].pc = "done" /\ req[r2].resp.status = 200) => req[r2].provCalls = 1)

C14_Witness ==
    \E r1, r2 \in Requests :
        /\ r1 # r2
        /\ UpdateFailedCall(r1)
        /\ req[r1].resp.status = 500
        /\ req[r2].kind = "get-token"
        /\ req[r2].user_id = req[r1].user_id
        /\ req[r2].userToken = req[r1].userToken
        /\ req[r2].provCalls = 1
        /\ req[r2].rUserToken.refresh_token = req[r1].rUserToken.refresh_token
        /\ FetchLatest(table, req[r1].user_id).access_token = req[r1].userToken.access_token
        /\ req[r2].currentTime > req[r1].grantedAt

\* The response of a get-token call that failed.
ErrorResponse(response) ==
    /\ response.status \in {404, 500}
    /\ response.access_token = 0
    /\ response.error # ""

\* C15: nothing is retried.  A get-token call never sends more than one
\* refresh request nor more than one update and never steps back; a failure
\* of its lookup, of refreshToken's lookup, of the refresh request or of the
\* update ends the call in that very step with an error response.
C15_NoRetry ==
    /\ [][\A r \in Requests :
            /\ (req[r].pc = "gt_select" /\ req'[r].pc # "gt_select"
                /\ req'[r].lookup # "row")
               => (req'[r].pc = "done" /\ ErrorResponse(req'[r].resp))
            /\ (req[r].pc = "rt_select" /\ req'[r].pc # "rt_select"
                /\ req'[r].rUserToken = NoRow)
               => (req'[r].pc = "done" /\ ErrorResponse(req'[r].resp)
                   /\ req'[r].provCalls = 0)
            /\ (req[r].pc = "rt_fetch" /\ req'[r].pc # "rt_fetch" /\ issued' = issued)
               => (req'[r].pc = "done" /\ ErrorResponse(req'[r].resp)
                   /\ req'[r].writes = 0)
            /\ (req[r].pc = "rt_update" /\ req'[r].pc # "rt_update" /\ ~req'[r].saved)
               => (req'[r].pc = "done" /\ ErrorResponse(req'[r].resp))
            /\ req[r].pc = "rt_select" => req'[r].pc \in {"rt_select", "rt_fetch", "done"}
            /\ req[r].pc = "rt_fetch" => req'[r].pc \in {"rt_fetch", "rt_update", "done"}
            /\ req[r].pc = "rt_update" => req'[r].pc \in {"rt_update", "done"}]_vars
    /\ [](\A r \in Requests :
            req[r].kind = "get-token" => (req[r].provCalls <= 1 /\ req[r].writes <= 1))

C15_Witness ==
    \E r \in Requests :
        /\ GetTokenDone(r)
        /\ req[r].lookup = "row"
        /\ req[r].currentTime >= req[r].userToken.expires_at
        /\ req[r].provCalls = 0
        /\ req[r].resp.status = 500
        /\ RowsOf(table, req[r].user_id) # {}

\* The two shapes of a successful get-token response (lines 113-116, 127-130).
RefreshedShape(response) == response.message # "" /\ response.expires_at = 0
FreshShape(response) == response.expires_at # 0 /\ response.message = ""

\* C16: a successful get-token response has exactly one of the two shapes;
\* it has the refreshed shape (message, no expires_at) iff the call sent one
\* refresh request and made one write, which was applied, and the fresh
\* shape (expires_at, no message) iff the call sent no provider request and
\* made no write.
C16_ShapeTellsPath ==
    \A r \in Requests :
        (GetTokenDone(r) /\ req[r].resp.status = 200)
        => /\ req[r].resp.access_token # 0
           /\ RefreshedShape(req[r].resp) # FreshShape(req[r].resp)
           /\ RefreshedShape(req[r].resp)
              <=> (req[r].provCalls = 1 /\ req[r].writes = 1 /\ req[r].saved)
           /\ FreshShape(req[r].resp)
              <=> (req[r].provCalls = 0 /\ req[r].writes = 0)

C16_Witness ==
    \E r1, r2 \in Requests :
        /\ GetTokenDone(r1) /\ req[r1].resp.status = 200 /\ RefreshedShape(req[r1].resp)
        /\ GetTokenDone(r2) /\ req[r2].resp.status = 200 /\ FreshShape(req[r2].resp)
        /\ req[r1].provCalls = 1 /\ req[r1].writes = 1
        /\ req[r2].provCalls = 0 /\ req[r2].writes = 0

\* Call r has ended on the refreshed path: its update was applied.
RefreshedAndStored(r) ==
    /\ GetTokenDone(r)
    /\ req[r].saved
    /\ req[r].resp.status = 200

\* C17: the applied update of a refreshing call leaves the refreshed
\* access_token and the provider's expires_at E in the user's latest record
\* and the call answers with the refreshed token; and while that record is
\* what the call stored (nothing else has written it, no other request of
\* the user is under way), a later get-token call of the user whose lookup
\* returns the record at now < E answers at once with the refreshed
\* access_token and E, having sent no provider request and no write.
C17_FreshUntilExpiry ==
    [][/\ \A r \in Requests :
            UpdateApplied(r)
            => /\ FetchLatest(table', req[r].user_id).access_token
                      = req[r].refreshedTokens.access_token
               /\ FetchLatest(table', req[r].user_id).expires_at
                      = req[r].refreshedTokens.expires_at
               /\ req'[r].resp = JsonRefreshed(req[r].refreshedTokens.access_token)
       /\ \A r1, r2 \in Requests :
            (/\ r1 # r2
             /\ RefreshedAndStored(r1)
             /\ req[r2].user_id = req[r1].user_id
             /\ \A r3 \in Requests \ {r1, r2} :
                    req[r3].pc \in {"idle", "done"} \/ req[r3].user_id # req[r1].user_id
             /\ LookupReturnsRow(r2)
             /\ FetchLatest(table, req[r1].user_id).access_token
                    = req[r1].refreshedTokens.access_token
             /\ now < req[r1].refreshedTokens.expires_at)
            => /\ req'[r2].pc = "done"
               /\ req'[r2].resp = JsonFresh(req[r1].refreshedTokens.access_token,
                                            req[r1].refreshedTokens.expires_at)
               /\ req'[r2].provCalls = 0
               /\ req'[r2].writes = 0
               /\ table' = table
               /\ issued' = issued]_vars

C17_Witness ==
    \E r1, r2 \in Requests :
        /\ r1 # r2
        /\ RefreshedAndStored(r1)
        /\ GetTokenDone(r2)
        /\ req[r2].user_id = req[r1].user_id
        /\ req[r2].resp = JsonFresh(req[r1].refreshedTokens.access_token,
                                    req[r1].refreshedTokens.expires_at)
        /\ req[r2].currentTime >= req[r1].grantedAt
        /\ req[r2].provCalls = 0

\* Request r is a get-token call that has not responded yet.
GetTokenPending(r) == req[r].pc \in {"gt_select", "rt_select", "rt_fetch", "rt_update"}

\* C18: a get-token request has no response while it is under way, sends
\* one (a token with 200, 404 or 500) in the step that ends it, and sends
\* nothing after that; and when every call it awaits returns or fails, every
\* get-token request is eventually answered.
C18_ExactlyOneResponse ==
    /\ [](\A r \in Requests :
            /\ GetTokenPending(r) => (req[r].kind = "get-token" /\ req[r].resp = NoResponse)
            /\ GetTokenDone(r)
               => /\ req[r].resp.status \in {200, 404, 500}
                  /\ (req[r].resp.status = 200) <=> (req[r].resp.access_token # 0)
                  /\ (req[r].resp.status = 200) <=> (req[r].resp.error = ""))
    /\ [][\A r \in Requests :
            /\ GetTokenPending(r) => (GetTokenPending(r)' \/ GetTokenDone(r)')
            /\ (GetTokenDone(r) /\ GetTokenDone(r)') => req'[r].resp = req[r].resp]_vars
    /\ \A r \in Requests : GetTokenPending(r) ~> GetTokenDone(r)

C18_Witness ==
    \E r1, r2 \in Requests :
        /\ GetTokenDone(r1) /\ req[r1].resp.status = 500 /\ req[r1].provCalls = 1
        /\ GetTokenDone(r2) /\ req[r2].resp.status = 404

\* Token g (0: none) was granted by the provider to user u.
IssuedTo(g, u) == g \in 1..Len(issued) /\ issued[g].user_id = u

\* The record of user v is rewritten, or a record of v is added, in this step.
RecordsChanged(v) ==
    \/ \E i \in DOMAIN table :
          table[i].user_id = v /\ (i \notin DOMAIN table' \/ table'[i] # table[i])
    \/ \E i \in DOMAIN table' \ DOMAIN table : table'[i].user_id = v

\* C19: the records of user v change only in the update of a refresh for v
\* or the upsert of a callback whose session is v's; every stored
\* access_token and refresh_token was granted to the record's user; a
\* get-token call for u answers only an access_token granted to u, sends
\* the provider only a refresh_token granted to u and is granted only
\* tokens of u.
C19_IsolatedPerUser ==
    /\ [][\A v \in Users :
            RecordsChanged(v)
            => \E r \in Requests :
                  \/ req[r].pc = "rt_update" /\ req[r].user_id = v /\ req'[r].saved
                  \/ req[r].pc = "cb_upsert" /\ req[r].session.user_id = v
                     /\ req'[r].saved]_vars
    /\ [](\A i \in DOMAIN table :
            /\ IssuedTo(table[i].access_token, table[i].user_id)
            /\ IssuedTo(table[i].refresh_token, table[i].user_id))
    /\ [](\A r \in Requests :
            /\ (GetTokenDone(r) /\ req[r].resp.status = 200)
               => IssuedTo(req[r].resp.access_token, req[r].user_id)
            /\ (req[r].kind = "get-token" /\ req[r].provCalls = 1)
               => IssuedTo(req[r].rUserToken.refresh_token, req[r].user_id)
            /\ (req[r].kind = "get-token" /\ req[r].refreshedTokens.ok)
               => IssuedTo(req[r].refreshedTokens.access_token, req[r].user_id))

C19_Witness ==
    \E r1, r2 \in Requests :
        /\ RefreshedAndStored(r1)
        /\ CallbackDone(r2) /\ req[r2].saved
        /\ req[r2].session.user_id # req[r1].user_id
        /\ req[r2].exchanged
        /\ FetchLatest(table, req[r2].session.user_id).access_token
               = req[r2].session.access_token
        /\ FetchLatest(table, req[r1].user_id).access_token
               = req[r1].refreshedTokens.access_token

=============================================================================
